---- MODULE Spec2Model ----
(***************************************************************************)
(* moseq2-extract: the per-chunk frame processing pipeline, extract_chunk   *)
(* (moseq2_extract/extract/extract.py), under Spec and, for several calls   *)
(* by independent workers, SpecCalls; the layout of the result file,        *)
(* create_extract_h5 (helpers/data.py), under SpecH5; the session prompt,   *)
(* get_selected_sessions (gui.py, helpers/data.py), under SpecSessions; and *)
(* the batching of a recording, gen_batch_sequence, under SpecBatch; the    *)
(* frame trimming of handle_extract_metadata under SpecMeta; and the        *)
(* aggregation of results, copy_manifest_results, under SpecManifest        *)
(* (both helpers/data.py).                                                  *)
(*                                                                         *)
(* A frame is a sequence of rows, a row a sequence of integer pixels.  A    *)
(* chunk is a sequence of T frames.  Angles are integers in units of a      *)
(* quarter turn, so that np.pi is 2 and rotations of a pixel grid are       *)
(* exact.  A Python value that may be None is a record [isNone, val]; a     *)
(* float that may be NaN is a sequence of length 0 (NaN) or 1.              *)
(***************************************************************************)
EXTENDS Integers, Sequences, FiniteSets, TLC

\* ---------------------------------------------------------------- bounds
MaxT == 3          \* longest chunk, in frames
MaxOrient == 2     \* raw orientations returned by the feature extractor: 0..MaxOrient
CropSize == 2      \* side of the square crop window (crop_size)
MaxSess == 2       \* most sessions listed in to_extract
MaxPrompts == 2    \* most answers given at the prompt of get_selected_sessions
MaxNFrames == 7    \* most frames of a recording split into batches
MaxChunk == 3      \* largest chunk_size of gen_batch_sequence
MaxCalls == 3      \* most calls of extract_chunk started by the workers together
MaxMetaFrames == 3 \* most frames of a recording handed to handle_extract_metadata
MaxTrim == 4       \* largest frame_trim entry, in absolute value
MaxEntries == 2    \* most entries of the manifest

\* ------------------------------------------------------ program constants
Pi == 2            \* np.pi, in quarter turns
min_height == 10   \* default of min_height, the frame_threshold
max_height == 100  \* default of max_height
mask_threshold == 0 - 20

\* ------------------------------------------------------- Python values
None == [isNone |-> TRUE, val |-> <<>>]
Some(x) == [isNone |-> FALSE, val |-> x]
NaN == <<>>
IsNaN(x) == x = <<>>
Num(n) == <<n>>

Range(s) == {s[i] : i \in DOMAIN s}

\* ------------------------------------------------------------- inputs
EmptyFrame == << <<0, 0>>, <<0, 0>> >>
BlobFrame == << <<50, 50>>, <<0, 50>> >>
FrameSet == {EmptyFrame, BlobFrame}
ChunkSet == UNION {[1..n -> FrameSet] : n \in 1..MaxT}
BgroundSet == {None, Some(<< <<40>> >>), Some(<< <<60, 60>>, <<60, 60>> >>)}
RoiSet == {None, Some(<< <<1>> >>), Some(<< <<1, 1>>, <<1, 0>> >>)}
OrientSet == 0..MaxOrient

Height(f) == Len(f)
Width(f) == IF Len(f) = 0 THEN 0 ELSE Len(f[1])

\* ------------------------------------------------------- numpy semantics
\* bool(x) of `if x:` for x None or an ndarray
Truth(x) ==
    IF x.isNone THEN "False"
    ELSE LET n == Height(x.val) * Width(x.val) IN
         IF n = 0 THEN "False"
         ELSE IF n = 1 THEN (IF x.val[1][1] # 0 THEN "True" ELSE "False")
         ELSE "ValueError"

\* shapes (h1,w1) and (h2,w2) broadcast together
Broadcastable(b, f) ==
    /\ Height(b) = Height(f) \/ Height(b) = 1 \/ Height(f) = 1
    /\ Width(b) = Width(f) \/ Width(b) = 1 \/ Width(f) = 1

BPix(b, r, c) == b[IF Height(b) = 1 THEN 1 ELSE r][IF Width(b) = 1 THEN 1 ELSE c]

\* (bground - chunk).astype('uint8')
SubtractBground(b, ch) ==
    [t \in 1..Len(ch) |->
        [r \in 1..Height(ch[t]) |->
            [c \in 1..Width(ch[t]) |-> (BPix(b, r, c) - ch[t][r][c]) % 256]]]

\* np.flip(a, axis=2) on one frame: every row reversed
MirrorFrame(f) ==
    [r \in 1..Height(f) |-> [c \in 1..Width(f) |-> f[r][Width(f) + 1 - c]]]

\* a[flips, ...]: the frames selected by a boolean mask, in order
RECURSIVE Gather(_, _)
Gather(a, m) ==
    IF a = <<>> THEN <<>>
    ELSE IF m[1] THEN <<a[1]>> \o Gather(Tail(a), Tail(m))
         ELSE Gather(Tail(a), Tail(m))

\* number of selected positions before or at i
Rank(m, i) == Cardinality({j \in 1..i : m[j]})

\* a[flips, ...] = b: the k-th selected position receives b[k]
Scatter(a, m, b) ==
    [i \in 1..Len(a) |-> IF m[i] THEN b[Rank(m, i)] ELSE a[i]]

\* np.flip(a, axis=2) on a stack of frames
FlipAxis2(a) == [i \in 1..Len(a) |-> MirrorFrame(a[i])]

\* every frame mirrored, selected or not
FlipEveryFrame(a, m) == FlipAxis2(a)

\* a[flips, ...] = np.flip(a[flips, ...], axis=2)
FlipSelected(a, m) == Scatter(a, m, FlipAxis2(Gather(a, m)))

\* cropped_ll = np.flip(cropped_ll[flips, ...], axis=2)
FlipLL(a, m) == FlipAxis2(Gather(a, m))

\* features['orientation'][flips] += np.pi
AddPi(o, m) ==
    [i \in 1..Len(o) |-> IF m[i] /\ ~IsNaN(o[i]) THEN Num(o[i][1] + Pi) ELSE o[i]]

\* ~np.isnan(x)
NotNaN(o) == [i \in 1..Len(o) |-> ~IsNaN(o[i])]

\* np.unwrap(p): phase corrections of the successive differences, summed
PhCorrect(dd) ==
    LET ddmod0 == ((dd + Pi) % (2 * Pi)) - Pi
        ddmod == IF ddmod0 = 0 - Pi /\ dd > 0 THEN Pi ELSE ddmod0
        absdd == IF dd < 0 THEN 0 - dd ELSE dd
    IN IF absdd < Pi THEN 0 ELSE ddmod - dd

RECURSIVE CumCorrect(_, _)
CumCorrect(p, i) ==
    IF i <= 1 THEN 0 ELSE CumCorrect(p, i - 1) + PhCorrect(p[i] - p[i - 1])

NpUnwrap(p) == [i \in 1..Len(p) |-> p[i] + CumCorrect(p, i)]

\* the orientation left as it is
UnwrapSkipped(o) == o

\* missing orientations filled with 0 and unwrapped with the others
UnwrapZeroFilled(o) ==
    LET doubled == [i \in 1..Len(o) |-> IF IsNaN(o[i]) THEN 0 ELSE o[i][1] * 2]
        up == NpUnwrap(doubled)
    IN [i \in 1..Len(up) |-> Num(up[i] \div 2)]

\* the unwrapped doubled angle, not halved back
UnwrapNotHalved(o) ==
    LET incl == NotNaN(o)
        sel == Gather(o, incl)
        doubled == [i \in 1..Len(sel) |-> sel[i][1] * 2]
        up == NpUnwrap(doubled)
    IN Scatter(o, incl, [i \in 1..Len(up) |-> Num(up[i])])

\* features['orientation'][incl] = np.unwrap(features['orientation'][incl]*2)/2
UnwrapOrientation(o) ==
    LET incl == NotNaN(o)
        sel == Gather(o, incl)
        doubled == [i \in 1..Len(sel) |-> sel[i][1] * 2]
        up == NpUnwrap(doubled)
        halved == [i \in 1..Len(up) |-> Num(up[i] \div 2)]
    IN Scatter(o, incl, halved)

\* ------------------------------------------- collaborators (proc, track)
Clamp(i, n) == IF i < 1 THEN 1 ELSE IF i > n THEN n ELSE i

\* the median of the 3x3 neighbourhood of (r, c), borders replicated
Median3(f, r, c) ==
    LET nb == [k \in 1..9 |->
                  f[Clamp(r + ((k - 1) \div 3) - 1, Height(f))]
                   [Clamp(c + ((k - 1) % 3) - 1, Width(f))]]
    IN CHOOSE v \in Range(nb) :
          /\ Cardinality({k \in 1..9 : nb[k] < v}) <= 4
          /\ Cardinality({k \in 1..9 : nb[k] <= v}) >= 5

\* clean_frames with prefilter_space=(3,), prefilter_time=None: the spatial
\* pass, frame by frame; the output has the shape of the input
clean_frames(ch) ==
    [t \in 1..Len(ch) |->
        [r \in 1..Height(ch[t]) |->
            [c \in 1..Width(ch[t]) |-> Median3(ch[t], r, c)]]]

Pixels(f) == (1..Height(f)) \X (1..Width(f))

RECURSIVE SumCoord(_, _)
SumCoord(S, k) ==
    IF S = {} THEN 0
    ELSE LET p == CHOOSE q \in S : TRUE IN p[k] + SumCoord(S \ {p}, k)

\* centroid of a set of pixel coordinates; missing when the set is empty
Centroid(S) ==
    IF S = {} THEN NaN
    ELSE <<SumCoord(S, 1) \div Cardinality(S), SumCoord(S, 2) \div Cardinality(S)>>

\* em_tracking with rho_mean=0: the smoothed mean follows the foreground of
\* each frame; a frame without foreground holds the previous state
RECURSIVE TrackMean(_, _)
TrackMean(filt, t) ==
    LET fg == {p \in Pixels(filt[t]) : filt[t][p[1]][p[2]] > 0} IN
    IF fg # {} THEN Centroid(fg)
    ELSE IF t = 1 THEN NaN
    ELSE TrackMean(filt, t - 1)

em_tracking(filt) == [t \in 1..Len(filt) |-> TrackMean(filt, t)]

\* em_get_ll: a log-density for every pixel of the chunk under a Gaussian
\* centred on the tracker mean of that frame
em_get_ll(ch, parameters) ==
    [t \in 1..Len(ch) |->
        [r \in 1..Height(ch[t]) |->
            [c \in 1..Width(ch[t]) |->
                IF IsNaN(parameters[t]) THEN 0 - 100
                ELSE 0 - 15 * ((r - parameters[t][1]) * (r - parameters[t][1])
                               + (c - parameters[t][2]) * (c - parameters[t][2]))]]]

\* foreground selection of get_frame_features
Foreground(filt, llmask, t) ==
    IF llmask.isNone
    THEN {p \in Pixels(filt[t]) : filt[t][p[1]][p[2]] > min_height}
    ELSE {p \in Pixels(filt[t]) : llmask.val[t][p[1]][p[2]] > mask_threshold}

\* the mask returned by get_frame_features
FeatureMask(filt, llmask) ==
    [t \in 1..Len(filt) |->
        [r \in 1..Height(filt[t]) |->
            [c \in 1..Width(filt[t]) |->
                IF <<r, c>> \in Foreground(filt, llmask, t) THEN 1 ELSE 0]]]

\* the features returned by get_frame_features, the fitted orientations
\* being orient; a frame without foreground has a missing centroid and a
\* missing orientation
FrameFeatures(filt, llmask, orient) ==
    [centroid |-> [t \in 1..Len(filt) |-> Centroid(Foreground(filt, llmask, t))],
     orientation |-> [t \in 1..Len(filt) |->
                        IF Foreground(filt, llmask, t) = {} THEN NaN
                        ELSE Num(orient[t])]]

\* a pixel offset rotated by a quarter turns
Rot(a, dr, dc) ==
    LET q == a % 4 IN
    IF q = 0 THEN <<dr, dc>>
    ELSE IF q = 1 THEN <<0 - dc, dr>>
    ELSE IF q = 2 THEN <<0 - dr, 0 - dc>>
    ELSE <<dc, 0 - dr>>

CropFrame(f, cen, ori) ==
    [r \in 1..CropSize |->
        [c \in 1..CropSize |->
            IF IsNaN(cen) \/ IsNaN(ori) THEN 0
            ELSE LET off == Rot(ori[1], r - 1 - (CropSize \div 2), c - 1 - (CropSize \div 2))
                     sr == cen[1] + off[1]
                     sc == cen[2] + off[2]
                 IN IF sr \in 1..Height(f) /\ sc \in 1..Width(f) THEN f[sr][sc] ELSE 0]]

\* crop_and_rotate_frames(frames, features, crop_size)
crop_and_rotate_frames(frames, feat) ==
    [t \in 1..Len(frames) |-> CropFrame(frames[t], feat.centroid[t], feat.orientation[t])]

\* mean height of a cropped frame over the pixels within [min_height, max_height]
HeightAve(f) ==
    LET inr == {p \in Pixels(f) : f[p[1]][p[2]] >= min_height /\ f[p[1]][p[2]] <= max_height}
        RECURSIVE S(_)
        S(Q) == IF Q = {} THEN 0
                ELSE LET p == CHOOSE q \in Q : TRUE IN f[p[1]][p[2]] + S(Q \ {p})
    IN IF inr = {} THEN NaN ELSE Num(S(inr) \div Cardinality(inr))

\* compute_scalars(frames, features, min_height, max_height)
compute_scalars(frames, feat) ==
    [centroid |-> feat.centroid,
     angle |-> feat.orientation,
     height_ave |-> [t \in 1..Len(frames) |-> HeightAve(frames[t])]]

\* ---------------------------------------------------------------- state
VARIABLES
    pc,                       \* the stage extract_chunk is about to run
    chunk_arg,                \* the chunk argument as passed by the caller
    use_em_tracker, bground, roi, flip_classifier,
    crop_size,                \* the side of crop_size: CropSize, or 0 for a non-positive size
    chunk, filtered_frames, ll, features, mask,
    cropped_frames, cropped_filtered_frames, cropped_ll,
    flips, scalars, results,
    error,                    \* the exception extract_chunk ended with, or ""
    clean_arg,                \* the chunk clean_frames was called with
    tracker_calls,            \* calls of em_tracking and em_get_ll
    crop_calls,               \* the features each crop_and_rotate_frames call received
    raw_features,             \* the features as get_frame_features returned them
    pre_flip,                 \* the crops and the orientation before flip correction
    pre_unwrap,               \* the orientation before unwrapping
    stages,                   \* the processing stages run so far, in order
    track_args,               \* the arrays em_tracking and em_get_ll were called with
    scalars_args              \* the crops and orientation compute_scalars was called with

\* create_extract_h5 (helpers/data.py)
VARIABLES
    h5_pc,                    \* the statement create_extract_h5 is about to run
    h5_file,                  \* f: dataset path -> [shape, dtype]
    nframes,                  \* the nframes argument
    config_data,              \* crop_size, frame_dtype, use_tracking_model, flip_classifier
    scalar_names,             \* the scalars argument, a list of names
    timestamps,               \* the timestamps argument, None or an array (its length)
    h5_i                      \* scalars already looped over

h5Vars == <<h5_pc, h5_file, nframes, config_data, scalar_names, timestamps, h5_i>>

\* create_extract_h5 has not been called
IdleH5 ==
    /\ h5_pc = "idle"
    /\ h5_file = <<>>
    /\ nframes = 0
    /\ config_data = <<>>
    /\ scalar_names = <<>>
    /\ timestamps = None
    /\ h5_i = 0

\* get_selected_sessions (gui.py, helpers/data.py)
VARIABLES
    s_pc,                     \* where get_selected_sessions is
    variant,                  \* "gui" for gui.py, "data" for helpers/data.py
    to_extract, extract_all,  \* the arguments
    selected_sess_idx, excluded_sess_idx, ret_extract,
    s_result,                 \* the value returned, or None
    s_error,                  \* the exception the call ended with, or ""
    sessions,                 \* the text last entered at the prompt
    n_prompts                 \* prompts answered so far

sessVars == <<s_pc, variant, to_extract, extract_all, selected_sess_idx, excluded_sess_idx,
              ret_extract, s_result, s_error, sessions, n_prompts>>

\* get_selected_sessions has not been called
IdleSessions ==
    /\ s_pc = "idle"
    /\ variant = "gui"
    /\ to_extract = <<>>
    /\ extract_all = FALSE
    /\ selected_sess_idx = <<>>
    /\ excluded_sess_idx = <<>>
    /\ ret_extract = <<>>
    /\ s_result = None
    /\ s_error = ""
    /\ sessions = <<>>
    /\ n_prompts = 0

\* gen_batch_sequence (util.py)
VARIABLES
    b_pc,                     \* where gen_batch_sequence is
    b_nframes, chunk_size, overlap,   \* the arguments
    b_i,                      \* the loop variable i
    out                       \* the ranges yielded so far

batchVars == <<b_pc, b_nframes, chunk_size, overlap, b_i, out>>

\* gen_batch_sequence has not been called
IdleBatch ==
    /\ b_pc = "idle"
    /\ b_nframes = 0
    /\ chunk_size = 1
    /\ overlap = 0
    /\ b_i = 0
    /\ out = <<>>

\* several calls of extract_chunk, made by independent workers
VARIABLES
    c_pc,                     \* worker -> the stage its call is at
    c_args,                   \* worker -> the arguments of its call
    c_filtered, c_ll,         \* worker -> the locals filtered_frames and ll
    c_result,                 \* worker -> the bundle its last call returned, or None
    strel_defaults,           \* the default structuring elements, built when the
                              \* function is defined and shared by every call
    last_parameters,          \* the parameters the latest em_tracking call returned
    n_calls                   \* calls started so far

callVars == <<c_pc, c_args, c_filtered, c_ll, c_result, strel_defaults, last_parameters,
              n_calls>>

\* no worker has been started
IdleCalls ==
    /\ c_pc = <<>>
    /\ c_args = <<>>
    /\ c_filtered = <<>>
    /\ c_ll = <<>>
    /\ c_result = <<>>
    /\ strel_defaults = <<>>
    /\ last_parameters = None
    /\ n_calls = 0

\* handle_extract_metadata (helpers/data.py)
VARIABLES
    m_pc,                     \* the statement handle_extract_metadata is about to run
    is_tar,                   \* input_file ends with .tar.gz or .tgz
    tar_names,                \* the member names of the tarball
    dir_files,                \* the files that exist in dirname
    frame_trim,               \* config_data['frame_trim']
    nframes_arg,              \* the nframes argument
    m_nframes,                \* the local nframes, rebound before the return
    first_frame_idx, last_frame_idx,
    alternate_correct,
    timestamp_path,           \* None while the local is unbound
    m_error,                  \* the exception the call ended with, or ""
    m_result                  \* the tuple returned, or None

metaVars == <<m_pc, is_tar, tar_names, dir_files, frame_trim, nframes_arg, m_nframes,
              first_frame_idx, last_frame_idx, alternate_correct, timestamp_path,
              m_error, m_result>>

\* handle_extract_metadata has not been called
IdleMeta ==
    /\ m_pc = "idle"
    /\ is_tar = FALSE
    /\ tar_names = {}
    /\ dir_files = {}
    /\ frame_trim = <<0, 0>>
    /\ nframes_arg = 0
    /\ m_nframes = 0
    /\ first_frame_idx = None
    /\ last_frame_idx = None
    /\ alternate_correct = FALSE
    /\ timestamp_path = None
    /\ m_error = ""
    /\ m_result = None

\* copy_manifest_results (helpers/data.py)
VARIABLES
    cp_pc,                    \* where copy_manifest_results is
    manifest,                 \* the entries of the manifest, in the order of manifest.items()
    sources,                  \* the source h5 files that exist
    output_files,             \* path in output_dir -> the content of the file there
    cp_k,                     \* entries the loop has gone through
    new_h5_path,              \* the local new_h5_path, None while unbound
    cp_error,                 \* the exception the call ended with, or ""
    meta_writes               \* the metadata written: [entry, path, key], in order

manifestVars == <<cp_pc, manifest, sources, output_files, cp_k, new_h5_path, cp_error,
                  meta_writes>>

\* copy_manifest_results has not been called
IdleManifest ==
    /\ cp_pc = "idle"
    /\ manifest = <<>>
    /\ sources = {}
    /\ output_files = <<>>
    /\ cp_k = 0
    /\ new_h5_path = None
    /\ cp_error = ""
    /\ meta_writes = <<>>

others == <<h5Vars, sessVars, batchVars, callVars, metaVars, manifestVars>>

inputs == <<chunk_arg, use_em_tracker, bground, roi, flip_classifier, crop_size>>
locals == <<chunk, filtered_frames, ll, features, mask, cropped_frames,
            cropped_filtered_frames, cropped_ll, flips, scalars, results>>
ghosts == <<clean_arg, tracker_calls, crop_calls, raw_features, pre_flip, pre_unwrap>>
histv == <<stages, track_args, scalars_args>>
vars == <<pc, inputs, locals, error, ghosts, histv, others>>

NoFeatures == [centroid |-> <<>>, orientation |-> <<>>]
NoCrops == [frames |-> <<>>, filtered |-> <<>>, mask |-> <<>>, ll |-> None,
            orientation |-> <<>>]

T == Len(chunk_arg)

Init ==
    /\ pc = "bground"
    /\ chunk_arg \in ChunkSet
    /\ use_em_tracker \in BOOLEAN
    /\ bground \in BgroundSet
    /\ bground.isNone \/ Len(chunk_arg) = 1    \* backgrounds are tried on one-frame chunks
    /\ roi \in RoiSet
    /\ flip_classifier \in BOOLEAN
    /\ crop_size \in {0, CropSize}
    /\ chunk = chunk_arg
    /\ filtered_frames = <<>>
    /\ ll = None
    /\ features = NoFeatures
    /\ mask = <<>>
    /\ cropped_frames = <<>>
    /\ cropped_filtered_frames = <<>>
    /\ cropped_ll = None
    /\ flips = None
    /\ scalars = None
    /\ results = None
    /\ error = ""
    /\ clean_arg = None
    /\ tracker_calls = 0
    /\ crop_calls = <<>>
    /\ raw_features = NoFeatures
    /\ pre_flip = NoCrops
    /\ pre_unwrap = <<>>
    /\ stages = <<>>
    /\ track_args = None
    /\ scalars_args = None
    /\ IdleH5
    /\ IdleSessions
    /\ IdleBatch
    /\ IdleCalls
    /\ IdleMeta
    /\ IdleManifest

\* extract_chunk has not been called
IdleExtract ==
    /\ pc = "idle"
    /\ chunk_arg = <<>>
    /\ use_em_tracker = FALSE
    /\ bground = None
    /\ roi = None
    /\ flip_classifier = FALSE
    /\ crop_size = 0
    /\ chunk = <<>>
    /\ filtered_frames = <<>>
    /\ ll = None
    /\ features = NoFeatures
    /\ mask = <<>>
    /\ cropped_frames = <<>>
    /\ cropped_filtered_frames = <<>>
    /\ cropped_ll = None
    /\ flips = None
    /\ scalars = None
    /\ results = None
    /\ error = ""
    /\ clean_arg = None
    /\ tracker_calls = 0
    /\ crop_calls = <<>>
    /\ raw_features = NoFeatures
    /\ pre_flip = NoCrops
    /\ pre_unwrap = <<>>
    /\ stages = <<>>
    /\ track_args = None
    /\ scalars_args = None

extractVars == <<pc, inputs, locals, error, ghosts, histv>>

\* an empty array of decisions instead of None
NoFlipsEmpty == Some(<<>>)

\* an array of false decisions instead of None
NoFlipsAllFalse == Some([i \in 1..T |-> FALSE])

\* else: flips = None
NoFlips == None

Raise(e) ==
    /\ pc' = "raised"
    /\ error' = e

\* if bground: chunk = (bground-chunk).astype('uint8')
ApplyBground ==
    /\ pc = "bground"
    /\ UNCHANGED others
    /\ IF Truth(bground) = "ValueError"
       THEN Raise("ValueError") /\ UNCHANGED chunk
       ELSE IF Truth(bground) = "True"
       THEN IF \A t \in 1..Len(chunk) : Broadcastable(bground.val, chunk[t])
            THEN /\ chunk' = SubtractBground(bground.val, chunk)
                 /\ pc' = "roi"
                 /\ UNCHANGED error
            ELSE Raise("ValueError") /\ UNCHANGED chunk
       ELSE /\ pc' = "roi"
            /\ UNCHANGED <<chunk, error>>
    /\ UNCHANGED <<inputs, filtered_frames, ll, features, mask, cropped_frames,
                   cropped_filtered_frames, cropped_ll, flips, scalars, results, ghosts,
                   histv>>

\* if roi: chunk = apply_roi(chunk)      (the roi is not passed on)
ApplyRoi ==
    /\ pc = "roi"
    /\ UNCHANGED others
    /\ IF Truth(roi) = "ValueError"
       THEN Raise("ValueError")
       ELSE IF Truth(roi) = "True"
       THEN Raise("TypeError")
       ELSE pc' = "clean" /\ UNCHANGED error
    /\ UNCHANGED <<inputs, locals, ghosts, histv>>

\* filtered_frames = clean_frames(chunk, ...)
CleanFrames ==
    /\ pc = "clean"
    /\ UNCHANGED others
    /\ filtered_frames' = clean_frames(chunk)
    /\ clean_arg' = Some(chunk)
    /\ stages' = Append(stages, "denoise")
    /\ pc' = "track"
    /\ UNCHANGED <<track_args, scalars_args>>
    /\ UNCHANGED <<inputs, chunk, ll, features, mask, cropped_frames,
                   cropped_filtered_frames, cropped_ll, flips, scalars, results,
                   error, tracker_calls, crop_calls, raw_features, pre_flip, pre_unwrap>>

\* the likelihood scored on the filtered frames instead of the chunk
TrackOnFiltered ==
    /\ pc = "track"
    /\ UNCHANGED others
    /\ IF use_em_tracker
       THEN /\ ll' = Some(em_get_ll(filtered_frames, em_tracking(filtered_frames)))
            /\ tracker_calls' = tracker_calls + 2
            /\ track_args' = Some([em_tracking |-> filtered_frames,
                                    em_get_ll |-> filtered_frames])
            /\ stages' = Append(stages, "track")
       ELSE /\ ll' = None
            /\ UNCHANGED <<tracker_calls, track_args, stages>>
    /\ pc' = "features"
    /\ UNCHANGED scalars_args
    /\ UNCHANGED <<inputs, chunk, filtered_frames, features, mask, cropped_frames,
                   cropped_filtered_frames, cropped_ll, flips, scalars, results,
                   error, clean_arg, crop_calls, raw_features, pre_flip, pre_unwrap>>

\* ll = None; if use_em_tracker: parameters = em_tracking(filtered_frames);
\* ll = em_get_ll(chunk, **parameters)
Track ==
    /\ pc = "track"
    /\ UNCHANGED others
    /\ IF use_em_tracker
       THEN /\ ll' = Some(em_get_ll(chunk, em_tracking(filtered_frames)))
            /\ tracker_calls' = tracker_calls + 2
            /\ track_args' = Some([em_tracking |-> filtered_frames, em_get_ll |-> chunk])
            /\ stages' = Append(stages, "track")
       ELSE /\ ll' = None
            /\ UNCHANGED <<tracker_calls, track_args, stages>>
    /\ pc' = "features"
    /\ UNCHANGED scalars_args
    /\ UNCHANGED <<inputs, chunk, filtered_frames, features, mask, cropped_frames,
                   cropped_filtered_frames, cropped_ll, flips, scalars, results,
                   error, clean_arg, crop_calls, raw_features, pre_flip, pre_unwrap>>

\* features, mask = get_frame_features(filtered_frames, mask=ll, ...)
GetFrameFeatures ==
    /\ pc = "features"
    /\ UNCHANGED others
    /\ \E orient \in [1..Len(filtered_frames) -> OrientSet] :
          /\ features' = FrameFeatures(filtered_frames, ll, orient)
          /\ raw_features' = features'
    /\ mask' = FeatureMask(filtered_frames, ll)
    /\ stages' = Append(stages, "features")
    /\ pc' = "crop_raw"
    /\ UNCHANGED <<track_args, scalars_args>>
    /\ UNCHANGED <<inputs, chunk, filtered_frames, ll, cropped_frames,
                   cropped_filtered_frames, cropped_ll, flips, scalars, results,
                   error, clean_arg, tracker_calls, crop_calls, pre_flip, pre_unwrap>>

\* cropped_frames = crop_and_rotate_frames(chunk, features, crop_size=crop_size)
CropRaw ==
    /\ pc = "crop_raw"
    /\ UNCHANGED others
    /\ IF crop_size <= 0
       THEN /\ Raise("ValueError")
            /\ UNCHANGED <<cropped_frames, crop_calls, stages>>
       ELSE /\ cropped_frames' = crop_and_rotate_frames(chunk, features)
            /\ crop_calls' = Append(crop_calls, features)
            /\ stages' = Append(stages, "crop_raw")
            /\ pc' = "crop_filtered"
            /\ UNCHANGED error
    /\ UNCHANGED <<inputs, chunk, filtered_frames, ll, features, mask,
                   cropped_filtered_frames, cropped_ll, flips, scalars, results,
                   clean_arg, tracker_calls, raw_features, pre_flip, pre_unwrap,
                   track_args, scalars_args>>

\* cropped_filtered_frames = crop_and_rotate_frames(filtered_frames, features, ...)
CropFiltered ==
    /\ pc = "crop_filtered"
    /\ UNCHANGED others
    /\ cropped_filtered_frames' = crop_and_rotate_frames(filtered_frames, features)
    /\ crop_calls' = Append(crop_calls, features)
    /\ stages' = Append(stages, "crop_filtered")
    /\ pc' = "crop_mask"
    /\ UNCHANGED <<inputs, chunk, filtered_frames, ll, features, mask,
                   cropped_frames, cropped_ll, flips, scalars, results,
                   error, clean_arg, tracker_calls, raw_features, pre_flip, pre_unwrap,
                   track_args, scalars_args>>

\* the mask cropped with features that were unwrapped first
CropMaskUnwrapped ==
    /\ pc = "crop_mask"
    /\ UNCHANGED others
    /\ features' = [features EXCEPT !.orientation = UnwrapNotHalved(@)]
    /\ mask' = crop_and_rotate_frames(mask, features')
    /\ crop_calls' = Append(crop_calls, features')
    /\ stages' = Append(stages, "crop_mask")
    /\ pc' = "crop_ll"
    /\ UNCHANGED <<inputs, chunk, filtered_frames, ll,
                   cropped_frames, cropped_filtered_frames, cropped_ll, flips,
                   scalars, results,
                   error, clean_arg, tracker_calls, raw_features, pre_flip, pre_unwrap,
                   track_args, scalars_args>>

\* mask = crop_and_rotate_frames(mask, features, ...)
CropMask ==
    /\ pc = "crop_mask"
    /\ UNCHANGED others
    /\ mask' = crop_and_rotate_frames(mask, features)
    /\ crop_calls' = Append(crop_calls, features)
    /\ stages' = Append(stages, "crop_mask")
    /\ pc' = "crop_ll"
    /\ UNCHANGED <<inputs, chunk, filtered_frames, ll, features,
                   cropped_frames, cropped_filtered_frames, cropped_ll, flips,
                   scalars, results,
                   error, clean_arg, tracker_calls, raw_features, pre_flip, pre_unwrap,
                   track_args, scalars_args>>

\* if use_em_tracker: cropped_ll = crop_and_rotate_frames(ll, features, ...)
\* else: cropped_ll = None
CropLL ==
    /\ pc = "crop_ll"
    /\ UNCHANGED others
    /\ IF use_em_tracker
       THEN /\ cropped_ll' = Some(crop_and_rotate_frames(ll.val, features))
            /\ crop_calls' = Append(crop_calls, features)
            /\ stages' = Append(stages, "crop_ll")
       ELSE /\ cropped_ll' = None
            /\ UNCHANGED <<crop_calls, stages>>
    /\ pc' = "flip"
    /\ UNCHANGED <<inputs, chunk, filtered_frames, ll, features, mask,
                   cropped_frames, cropped_filtered_frames, flips, scalars, results,
                   error, clean_arg, tracker_calls, raw_features, pre_flip, pre_unwrap,
                   track_args, scalars_args>>

\* if flip_classifier: flips = get_flips(...); the crops selected by flips
\* are mirrored and pi is added to their orientation; else: flips = None
FlipCorrect ==
    /\ pc = "flip"
    /\ UNCHANGED others
    /\ pre_flip' = [frames |-> cropped_frames, filtered |-> cropped_filtered_frames,
                    mask |-> mask, ll |-> cropped_ll,
                    orientation |-> features.orientation]
    /\ IF flip_classifier
       THEN \E fl \in [1..Len(cropped_frames) -> BOOLEAN] :
              /\ flips' = Some(fl)
              /\ cropped_frames' = FlipSelected(cropped_frames, fl)
              /\ cropped_filtered_frames' = FlipSelected(cropped_filtered_frames, fl)
              /\ mask' = FlipSelected(mask, fl)
              /\ features' = [features EXCEPT !.orientation = AddPi(@, fl)]
              /\ IF use_em_tracker
                 THEN cropped_ll' = Some(FlipLL(cropped_ll.val, fl))
                 ELSE UNCHANGED cropped_ll
       ELSE /\ flips' = NoFlips
            /\ UNCHANGED <<cropped_frames, cropped_filtered_frames, mask, features,
                           cropped_ll>>
    /\ stages' = IF flip_classifier THEN Append(stages, "flip") ELSE stages
    /\ pc' = "unwrap"
    /\ UNCHANGED <<inputs, chunk, filtered_frames, ll, scalars, results,
                   error, clean_arg, tracker_calls, crop_calls, raw_features, pre_unwrap,
                   track_args, scalars_args>>

\* incl = ~np.isnan(features['orientation'])
\* features['orientation'][incl] = np.unwrap(features['orientation'][incl]*2)/2
Unwrap ==
    /\ pc = "unwrap"
    /\ UNCHANGED others
    /\ pre_unwrap' = features.orientation
    /\ features' = [features EXCEPT !.orientation = UnwrapOrientation(@)]
    /\ stages' = Append(stages, "unwrap")
    /\ pc' = "scalars"
    /\ UNCHANGED <<inputs, chunk, filtered_frames, ll, mask, cropped_frames,
                   cropped_filtered_frames, cropped_ll, flips, scalars, results,
                   error, clean_arg, tracker_calls, crop_calls, raw_features, pre_flip,
                   track_args, scalars_args>>

\* scalars = compute_scalars(cropped_filtered_frames, features, min_height, max_height)
ComputeScalars ==
    /\ pc = "scalars"
    /\ UNCHANGED others
    /\ scalars' = Some(compute_scalars(cropped_filtered_frames, features))
    /\ scalars_args' = Some([frames |-> cropped_filtered_frames,
                              orientation |-> features.orientation])
    /\ stages' = Append(stages, "scalars")
    /\ pc' = "return"
    /\ UNCHANGED <<inputs, chunk, filtered_frames, ll, features, mask, cropped_frames,
                   cropped_filtered_frames, cropped_ll, flips, results,
                   error, ghosts, track_args>>

\* results = {...}; return results
Return ==
    /\ pc = "return"
    /\ UNCHANGED others
    /\ results' = Some([depth_frames |-> cropped_frames,
                        mask_frames |-> mask,
                        ll_frames |-> cropped_ll,
                        scalars |-> scalars.val,
                        flips |-> flips])
    /\ pc' = "done"
    /\ UNCHANGED <<inputs, chunk, filtered_frames, ll, features, mask, cropped_frames,
                   cropped_filtered_frames, cropped_ll, flips, scalars,
                   error, ghosts, histv>>

Next ==
    \/ ApplyBground
    \/ ApplyRoi
    \/ CleanFrames
    \/ Track
    \/ GetFrameFeatures
    \/ CropRaw
    \/ CropFiltered
    \/ CropMask
    \/ CropLL
    \/ FlipCorrect
    \/ Unwrap
    \/ ComputeScalars
    \/ Return

Spec == Init /\ [][Next]_vars

\* ------------------------------------------------ create_extract_h5
\* (helpers/data.py) a dataset of an h5 file: its shape and its dtype; a
\* dataset created from data has the data's shape and dtype
Dataset(shape, dtype) == [shape |-> shape, dtype |-> dtype]
FromData == Dataset(<<"data">>, "data")

\* f.create_dataset(name, ...)
CreateDataset(file, name, ds) == (name :> ds) @@ file

ScalarNames == {"centroid_x_px", "angle"}
DtypeSet == {"uint8", "uint16"}

\* lists of distinct scalar names
ScalarLists ==
    {q \in UNION {[1..n -> ScalarNames] : n \in 0..Cardinality(ScalarNames)} :
        \A i, j \in DOMAIN q : i # j => q[i] # q[j]}

InitH5 ==
    /\ IdleExtract
    /\ IdleSessions
    /\ IdleBatch
    /\ IdleCalls
    /\ IdleMeta
    /\ IdleManifest
    /\ h5_pc = "uuid"
    /\ h5_file = <<>>
    /\ nframes \in 0..MaxT
    /\ config_data \in [crop_size : (1..CropSize) \X (1..CropSize),
                        frame_dtype : DtypeSet,
                        use_tracking_model : BOOLEAN,
                        flip_classifier : {None, Some("flip_classifier.pkl")}]
    /\ scalar_names \in ScalarLists
    /\ timestamps \in {None} \cup {Some(n) : n \in 0..MaxT}
    /\ h5_i = 0

\* f.create_dataset('metadata/uuid', data=status_dict['uuid'])
H5Uuid ==
    /\ h5_pc = "uuid"
    /\ h5_file' = CreateDataset(h5_file, <<"metadata", "uuid">>, FromData)
    /\ h5_pc' = "scalars"
    /\ UNCHANGED <<extractVars, sessVars, batchVars, callVars, metaVars, manifestVars, nframes, config_data, scalar_names, timestamps, h5_i>>

\* for scalar in scalars:
\*     f.create_dataset(f'scalars/{scalar}', (nframes,), 'float32', ...)
H5Scalar ==
    /\ h5_pc = "scalars"
    /\ IF h5_i < Len(scalar_names)
       THEN /\ h5_file' = CreateDataset(h5_file, <<"scalars", scalar_names[h5_i + 1]>>,
                                        Dataset(<<nframes>>, "float32"))
            /\ h5_i' = h5_i + 1
            /\ UNCHANGED h5_pc
       ELSE /\ h5_pc' = "timestamps"
            /\ UNCHANGED <<h5_file, h5_i>>
    /\ UNCHANGED <<extractVars, sessVars, batchVars, callVars, metaVars, manifestVars, nframes, config_data, scalar_names, timestamps>>

\* if timestamps is not None: f.create_dataset('timestamps', data=timestamps)
H5Timestamps ==
    /\ h5_pc = "timestamps"
    /\ h5_file' = IF timestamps.isNone THEN h5_file
                  ELSE CreateDataset(h5_file, <<"timestamps">>,
                                     Dataset(<<timestamps.val>>, "data"))
    /\ h5_pc' = "frames"
    /\ UNCHANGED <<extractVars, sessVars, batchVars, callVars, metaVars, manifestVars, nframes, config_data, scalar_names, timestamps, h5_i>>

\* f.create_dataset('frames', (nframes, crop_size[0], crop_size[1]), frame_dtype)
H5Frames ==
    /\ h5_pc = "frames"
    /\ h5_file' = CreateDataset(h5_file, <<"frames">>,
                     Dataset(<<nframes, config_data.crop_size[1], config_data.crop_size[2]>>,
                             config_data.frame_dtype))
    /\ h5_pc' = "frames_mask"
    /\ UNCHANGED <<extractVars, sessVars, batchVars, callVars, metaVars, manifestVars, nframes, config_data, scalar_names, timestamps, h5_i>>

\* every mask is written as float32
H5FramesMaskFloat ==
    /\ h5_pc = "frames_mask"
    /\ h5_file' = CreateDataset(h5_file, <<"frames_mask">>,
                     Dataset(<<nframes, config_data.crop_size[1], config_data.crop_size[2]>>,
                             "float32"))
    /\ h5_pc' = "flips"
    /\ UNCHANGED <<extractVars, sessVars, batchVars, callVars, metaVars, manifestVars, nframes, config_data, scalar_names, timestamps, h5_i>>

\* if config_data['use_tracking_model']: ... 'float32' else: ... 'bool'
H5FramesMask ==
    /\ h5_pc = "frames_mask"
    /\ h5_file' = CreateDataset(h5_file, <<"frames_mask">>,
                     Dataset(<<nframes, config_data.crop_size[1], config_data.crop_size[2]>>,
                             IF config_data.use_tracking_model THEN "float32" ELSE "bool"))
    /\ h5_pc' = "flips"
    /\ UNCHANGED <<extractVars, sessVars, batchVars, callVars, metaVars, manifestVars, nframes, config_data, scalar_names, timestamps, h5_i>>

\* if config_data['flip_classifier'] is not None:
\*     f.create_dataset('metadata/extraction/flips', (nframes,), 'bool')
H5Flips ==
    /\ h5_pc = "flips"
    /\ h5_file' = IF config_data.flip_classifier.isNone THEN h5_file
                  ELSE CreateDataset(h5_file, <<"metadata", "extraction", "flips">>,
                                     Dataset(<<nframes>>, "bool"))
    /\ h5_pc' = "metadata"
    /\ UNCHANGED <<extractVars, sessVars, batchVars, callVars, metaVars, manifestVars, nframes, config_data, scalar_names, timestamps, h5_i>>

MetadataNames == {"true_depth", "roi", "first_frame", "background", "extract_version",
                  "parameters"}

\* the datasets of metadata/extraction created from data, and the parameters
H5Metadata ==
    /\ h5_pc = "metadata"
    /\ h5_file' = [n \in {<<"metadata", "extraction", m>> : m \in MetadataNames} |-> FromData]
                  @@ h5_file
    /\ h5_pc' = "done"
    /\ UNCHANGED <<extractVars, sessVars, batchVars, callVars, metaVars, manifestVars, nframes, config_data, scalar_names, timestamps, h5_i>>

NextH5 ==
    \/ H5Uuid
    \/ H5Scalar
    \/ H5Timestamps
    \/ H5Frames
    \/ H5FramesMask
    \/ H5Flips
    \/ H5Metadata

SpecH5 == InitH5 /\ [][NextH5]_vars

\* ------------------------------------------------ get_selected_sessions
\* A str is a sequence of one-character strings.
Digits == <<"0", "1", "2", "3", "4", "5", "6", "7", "8", "9">>
DigitChar(n) == Digits[n + 1]
DigitVal(c) == CHOOSE n \in 0..9 : Digits[n + 1] = c
IsDigit(c) == \E n \in 0..9 : Digits[n + 1] = c

\* c in s
Contains(s, c) == \E i \in DOMAIN s : s[i] = c

\* s.split(c)
RECURSIVE Split(_, _)
Split(s, c) ==
    IF ~Contains(s, c) THEN <<s>>
    ELSE LET k == CHOOSE i \in DOMAIN s : s[i] = c /\ \A j \in 1..(i - 1) : s[j] # c
         IN <<SubSeq(s, 1, k - 1)>> \o Split(SubSeq(s, k + 1, Len(s)), c)

\* s.strip(chars)
RECURSIVE Strip(_, _)
Strip(s, chars) ==
    IF s = <<>> THEN s
    ELSE IF s[1] \in chars THEN Strip(Tail(s), chars)
    ELSE IF s[Len(s)] \in chars THEN Strip(SubSeq(s, 1, Len(s) - 1), chars)
    ELSE s

\* isinstance(literal_eval(s), int) evaluates without an exception, to True:
\* s is a decimal literal (anything else the prompt's alphabet can spell
\* makes literal_eval raise)
IsIntLiteral(s) ==
    /\ s # <<>>
    /\ \A i \in DOMAIN s : IsDigit(s[i])
    /\ Len(s) > 1 => s[1] # "0"

\* int(s)
RECURSIVE ToInt(_)
ToInt(s) == IF s = <<>> THEN 0 ELSE 10 * ToInt(SubSeq(s, 1, Len(s) - 1)) + DigitVal(s[Len(s)])

\* list(range(a, b + 1))
RangeList(a, b) == [k \in 1..(IF b >= a THEN b - a + 1 ELSE 0) |-> a + k - 1]

\* the state of the two index lists, and the exception raised if any
Lists(sel, excl, err) == [sel |-> sel, excl |-> excl, err |-> err]

\* the number or the range s spells, appended to lst
AppendIndices(s, lst) ==
    IF ~Contains(s, "-")
    THEN IF IsIntLiteral(s) THEN [ok |-> TRUE, lst |-> Append(lst, ToInt(s))]
         ELSE [ok |-> FALSE, lst |-> lst]
    ELSE LET ss == Split(s, "-") IN
         IF IsIntLiteral(ss[1]) /\ IsIntLiteral(ss[2])
         THEN [ok |-> TRUE, lst |-> lst \o RangeList(ToInt(ss[1]), ToInt(ss[2]))]
         ELSE [ok |-> FALSE, lst |-> lst]

\* parse_input(s) on the lists st
parse_input(s, st) ==
    IF st.err # "" THEN st
    ELSE IF ~Contains(s, "e")
    THEN LET r == AppendIndices(s, st.sel) IN
         Lists(r.lst, st.excl, IF r.ok THEN "" ELSE "SyntaxError")
    ELSE LET r == AppendIndices(Strip(s, {"e", " "}), st.excl) IN
         Lists(st.sel, r.lst, IF r.ok THEN "" ELSE "SyntaxError")

\* for s in selection: parse_input(s.strip())
RECURSIVE ParseAll(_, _)
ParseAll(selection, st) ==
    IF selection = <<>> THEN st
    ELSE ParseAll(Tail(selection), parse_input(Strip(selection[1], {" "}), st))

\* lst[k] of a Python list, k negative counting from the end
InIndexRange(lst, k) == k < Len(lst) /\ k >= 0 - Len(lst)
PyIndex(lst, k) == lst[IF k >= 0 THEN k + 1 ELSE Len(lst) + k + 1]

\* for i in iters: if i not in excluded_sess_idx: [if i - 1 < len(to_extract):]
\*     ret_extract.append(to_extract[i - 1])
\* checked says whether the bracketed test is made
RECURSIVE Collect(_, _, _, _)
Collect(iters, excl, lst, checked) ==
    IF iters = <<>> THEN [ret |-> <<>>, err |-> ""]
    ELSE LET i == iters[1] IN
         IF i \in Range(excl) \/ (checked /\ ~(i - 1 < Len(lst)))
         THEN Collect(Tail(iters), excl, lst, checked)
         ELSE IF ~InIndexRange(lst, i - 1)
         THEN [ret |-> <<>>, err |-> "IndexError"]
         ELSE LET rest == Collect(Tail(iters), excl, lst, checked)
              IN [ret |-> <<PyIndex(lst, i - 1)>> \o rest.ret, err |-> rest.err]

\* one pass of the body of the while loop for the text inp, with the index
\* lists as the earlier passes left them
Pass(var, lst, sel, excl, inp) ==
    IF Contains(inp, "q")
    THEN [sel |-> sel, excl |-> excl, ret |-> <<>>, err |-> "", quit |-> TRUE]
    ELSE IF Contains(inp, ",")
    THEN LET st == ParseAll(Split(inp, ","), Lists(sel, excl, ""))
             c == Collect(st.sel, st.excl, lst, FALSE)
         IN [sel |-> st.sel, excl |-> st.excl,
             ret |-> IF st.err # "" THEN <<>> ELSE c.ret,
             err |-> IF st.err # "" THEN st.err ELSE c.err, quit |-> FALSE]
    ELSE IF Len(inp) > 0
    THEN LET st == parse_input(inp, Lists(sel, excl, ""))
             iters == IF var = "gui" /\ Len(st.sel) = 0
                      THEN RangeList(1, Len(lst)) ELSE st.sel
             c == Collect(iters, st.excl, lst, TRUE)
         IN [sel |-> st.sel, excl |-> st.excl,
             ret |-> IF st.err # "" THEN <<>> ELSE c.ret,
             err |-> IF st.err # "" THEN st.err ELSE c.err, quit |-> FALSE]
    ELSE [sel |-> sel, excl |-> excl, ret |-> <<>>, err |-> "", quit |-> FALSE]

\* ---- the texts entered at the prompt
IdxSet == 0..(MaxSess + 1)
NumberItems == {<<DigitChar(a)>> : a \in IdxSet}
RangeItems == {<<DigitChar(a), "-", DigitChar(b)>> : a \in IdxSet, b \in IdxSet}
PlainItems == NumberItems \cup {r \in RangeItems : DigitVal(r[1]) < DigitVal(r[3])}
ExcludeItems == {<<"e">> \o it : it \in PlainItems}
Items == PlainItems \cup ExcludeItems
ShortItems == NumberItems \cup {<<"e">> \o it : it \in NumberItems}
InputSet ==
    Items
    \cup {a \o <<",">> \o b : a \in Items, b \in ShortItems}
    \cup {a \o <<",">> \o b : a \in ShortItems, b \in Items}
    \cup {<<"q">>, <<>>, <<"e">>}

SessionName(i) == <<"session", i>>
SessionLists == {[i \in 1..n |-> SessionName(i)] : n \in 0..MaxSess}

InitSessions ==
    /\ IdleExtract
    /\ IdleH5
    /\ IdleBatch
    /\ IdleCalls
    /\ IdleMeta
    /\ IdleManifest
    /\ s_pc = "start"
    /\ variant \in {"gui", "data"}
    /\ to_extract \in SessionLists
    /\ extract_all \in BOOLEAN
    /\ selected_sess_idx = <<>>
    /\ excluded_sess_idx = <<>>
    /\ ret_extract = <<>>
    /\ s_result = None
    /\ s_error = ""
    /\ sessions = <<>>
    /\ n_prompts = 0

\* if len(to_extract) > 1 and not extract_all: ... else: return to_extract
SessStart ==
    /\ s_pc = "start"
    /\ IF Len(to_extract) > 1 /\ ~extract_all
       THEN /\ s_pc' = "loop"
            /\ UNCHANGED s_result
       ELSE /\ s_pc' = "returned"
            /\ s_result' = Some(to_extract)
    /\ UNCHANGED <<extractVars, h5Vars, batchVars, callVars, metaVars, manifestVars, variant, to_extract, extract_all, selected_sess_idx,
                   excluded_sess_idx, ret_extract, s_error, sessions, n_prompts>>

\* one pass of the while loop for the entered text inp
Answer(inp) ==
    /\ s_pc = "loop"
    /\ Len(ret_extract) = 0
    /\ n_prompts < MaxPrompts
    /\ \E r \in {Pass(variant, to_extract, selected_sess_idx, excluded_sess_idx, inp)} :
       /\ sessions' = inp
       /\ n_prompts' = n_prompts + 1
       /\ selected_sess_idx' = r.sel
       /\ excluded_sess_idx' = r.excl
       /\ ret_extract' = r.ret
       /\ s_error' = r.err
       /\ s_pc' = IF r.err # "" THEN "raised" ELSE IF r.quit THEN "returned" ELSE "loop"
       /\ s_result' = IF r.quit THEN Some(<<>>) ELSE s_result
    /\ UNCHANGED <<extractVars, h5Vars, batchVars, callVars, metaVars, manifestVars, variant, to_extract, extract_all>>

\* if "q" in sessions: return []
AnswerQuit == \E inp \in InputSet : Contains(inp, "q") /\ Answer(inp)

\* if "," in sessions: ...
AnswerComma ==
    \E inp \in InputSet : ~Contains(inp, "q") /\ Contains(inp, ",") /\ Answer(inp)

\* elif len(sessions) > 0: ...
AnswerSingle ==
    \E inp \in InputSet :
        ~Contains(inp, "q") /\ ~Contains(inp, ",") /\ Len(inp) > 0 /\ Answer(inp)

\* else: print("Invalid input. Try again or press q to quit.")
AnswerEmpty == \E inp \in InputSet : Len(inp) = 0 /\ Answer(inp)

\* the while loop ends: return ret_extract
SessReturn ==
    /\ s_pc = "loop"
    /\ Len(ret_extract) # 0
    /\ s_pc' = "returned"
    /\ s_result' = Some(ret_extract)
    /\ UNCHANGED <<extractVars, h5Vars, batchVars, callVars, metaVars, manifestVars, variant, to_extract, extract_all, selected_sess_idx,
                   excluded_sess_idx, ret_extract, s_error, sessions, n_prompts>>

NextSessions ==
    \/ SessStart
    \/ AnswerQuit
    \/ AnswerComma
    \/ AnswerSingle
    \/ AnswerEmpty
    \/ SessReturn

SpecSessions == InitSessions /\ [][NextSessions]_vars

\* ------------------------------------------------ gen_batch_sequence
\* (util.py) a range(start, stop) object
PyRange(start, stop) == [start |-> start, stop |-> stop]
Frames(r) == (r.start)..(r.stop - 1)
Min(a, b) == IF a < b THEN a ELSE b

\* seq[i:i + chunk_size] of seq = range(0, nframes)
SliceOfSeq(n, i, size) == PyRange(Min(i, n), Min(i + size, n))

InitBatch ==
    /\ IdleExtract
    /\ IdleH5
    /\ IdleSessions
    /\ IdleCalls
    /\ IdleMeta
    /\ IdleManifest
    /\ b_pc = "loop"
    /\ b_nframes \in 0..MaxNFrames
    /\ chunk_size \in 1..MaxChunk
    /\ overlap \in 0..(chunk_size - 1)
    /\ b_i = 0
    /\ out = <<>>

\* for i in range(0, len(seq) - overlap, chunk_size - overlap):
\*     yield seq[i:i + chunk_size]
BatchYield ==
    /\ b_pc = "loop"
    /\ b_i < b_nframes - overlap
    /\ out' = Append(out, SliceOfSeq(b_nframes, b_i, chunk_size))
    /\ b_i' = b_i + (chunk_size - overlap)
    /\ UNCHANGED <<extractVars, h5Vars, sessVars, callVars, metaVars, manifestVars, b_pc, b_nframes, chunk_size, overlap>>

\* the range of starts is exhausted
BatchEnd ==
    /\ b_pc = "loop"
    /\ ~(b_i < b_nframes - overlap)
    /\ b_pc' = "done"
    /\ UNCHANGED <<extractVars, h5Vars, sessVars, callVars, metaVars, manifestVars, b_nframes, chunk_size, overlap, b_i, out>>

NextBatch ==
    \/ BatchYield
    \/ BatchEnd

SpecBatch == InitBatch /\ [][NextBatch]_vars

\* ------------------------------------------------ calls of extract_chunk
\* Two workers, each making calls of extract_chunk one after another, the
\* stages of their calls interleaved.  A call has its own locals; the default
\* structuring elements are objects of the function and shared.
Workers == {"w1", "w2"}
CallChunks == {<<EmptyFrame>>, <<BlobFrame>>, <<BlobFrame, EmptyFrame>>}
CallArgs == [chunk : CallChunks, use_em_tracker : BOOLEAN]

\* strel_tail=cv2.getStructuringElement(cv2.MORPH_ELLIPSE, (9, 9)),
\* strel_min=cv2.getStructuringElement(cv2.MORPH_RECT, (5, 5))
StrelDefaults == [strel_tail |-> <<"ellipse", 9, 9>>, strel_min |-> <<"rect", 5, 5>>]

\* the orientation get_frame_features fits to a frame: a function of the
\* frame's foreground alone
FitOrientation(filt, llmask) ==
    [t \in 1..Len(filt) |-> Cardinality(Foreground(filt, llmask, t)) % (MaxOrient + 1)]

\* the bundle of a call once filtered_frames and ll are known, with no
\* background, no ROI and no flip classifier
Bundle(ch, filt, llv) ==
    LET feat == FrameFeatures(filt, llv, FitOrientation(filt, llv))
        unwrapped == [feat EXCEPT !.orientation = UnwrapOrientation(@)]
    IN [depth_frames |-> crop_and_rotate_frames(ch, feat),
        mask_frames |-> crop_and_rotate_frames(FeatureMask(filt, llv), feat),
        ll_frames |-> IF llv.isNone THEN None
                      ELSE Some(crop_and_rotate_frames(llv.val, feat)),
        scalars |-> compute_scalars(crop_and_rotate_frames(filt, feat), unwrapped),
        flips |-> None]

\* a tracker that starts from the state an earlier call left behind
em_tracking_seeded(filt, seed) ==
    [t \in 1..Len(filt) |->
        IF IsNaN(TrackMean(filt, t)) /\ ~seed.isNone
        THEN seed.val[Len(seed.val)] ELSE TrackMean(filt, t)]

InitCalls ==
    /\ IdleExtract
    /\ IdleH5
    /\ IdleSessions
    /\ IdleBatch
    /\ IdleMeta
    /\ IdleManifest
    /\ c_pc = [w \in Workers |-> "idle"]
    /\ c_args = [w \in Workers |-> None]
    /\ c_filtered = [w \in Workers |-> <<>>]
    /\ c_ll = [w \in Workers |-> None]
    /\ c_result = [w \in Workers |-> None]
    /\ strel_defaults = StrelDefaults
    /\ last_parameters = None
    /\ n_calls = 0

\* a worker calls extract_chunk: the parameters are bound, the locals are new
CallStart(w) ==
    /\ c_pc[w] \in {"idle", "returned"}
    /\ n_calls < MaxCalls
    /\ \E a \in CallArgs : c_args' = [c_args EXCEPT ![w] = Some(a)]
    /\ c_pc' = [c_pc EXCEPT ![w] = "clean"]
    /\ c_filtered' = [c_filtered EXCEPT ![w] = <<>>]
    /\ c_ll' = [c_ll EXCEPT ![w] = None]
    /\ c_result' = [c_result EXCEPT ![w] = None]
    /\ n_calls' = n_calls + 1
    /\ UNCHANGED <<extractVars, h5Vars, sessVars, batchVars, metaVars, manifestVars, strel_defaults, last_parameters>>

\* filtered_frames = clean_frames(chunk, ..., strel_tail=strel_tail, strel_min=strel_min);
\* ll = None
CallClean(w) ==
    /\ c_pc[w] = "clean"
    /\ c_filtered' = [c_filtered EXCEPT ![w] = clean_frames(c_args[w].val.chunk)]
    /\ c_ll' = [c_ll EXCEPT ![w] = None]
    /\ c_pc' = [c_pc EXCEPT ![w] = "track"]
    /\ UNCHANGED <<extractVars, h5Vars, sessVars, batchVars, metaVars, manifestVars, c_args, c_result,
                   strel_defaults, last_parameters, n_calls>>

\* the tracker takes up the parameters of the latest call
CallTrackSeeded(w) ==
    /\ c_pc[w] = "track"
    /\ IF c_args[w].val.use_em_tracker
       THEN \E parameters \in {em_tracking_seeded(c_filtered[w], last_parameters)} :
              /\ c_ll' = [c_ll EXCEPT ![w] = Some(em_get_ll(c_args[w].val.chunk, parameters))]
              /\ last_parameters' = Some(parameters)
       ELSE UNCHANGED <<c_ll, last_parameters>>
    /\ c_pc' = [c_pc EXCEPT ![w] = "features"]
    /\ UNCHANGED <<extractVars, h5Vars, sessVars, batchVars, metaVars, manifestVars, c_args, c_filtered, c_result,
                   strel_defaults, n_calls>>

\* if use_em_tracker:
\*     parameters = em_tracking(filtered_frames, ...); ll = em_get_ll(chunk, **parameters)
CallTrack(w) ==
    /\ c_pc[w] = "track"
    /\ IF c_args[w].val.use_em_tracker
       THEN \E parameters \in {em_tracking(c_filtered[w])} :
              /\ c_ll' = [c_ll EXCEPT ![w] = Some(em_get_ll(c_args[w].val.chunk, parameters))]
              /\ last_parameters' = Some(parameters)
       ELSE UNCHANGED <<c_ll, last_parameters>>
    /\ c_pc' = [c_pc EXCEPT ![w] = "features"]
    /\ UNCHANGED <<extractVars, h5Vars, sessVars, batchVars, metaVars, manifestVars, c_args, c_filtered, c_result,
                   strel_defaults, n_calls>>

\* features, crops, unwrapping and scalars, and the return of the bundle
CallFinish(w) ==
    /\ c_pc[w] = "features"
    /\ c_result' = [c_result EXCEPT
                      ![w] = Some(Bundle(c_args[w].val.chunk, c_filtered[w], c_ll[w]))]
    /\ c_pc' = [c_pc EXCEPT ![w] = "returned"]
    /\ UNCHANGED <<extractVars, h5Vars, sessVars, batchVars, metaVars, manifestVars, c_args, c_filtered, c_ll,
                   strel_defaults, last_parameters, n_calls>>

NextCalls ==
    \/ \E w \in Workers : CallStart(w)
    \/ \E w \in Workers : CallClean(w)
    \/ \E w \in Workers : CallTrack(w)
    \/ \E w \in Workers : CallFinish(w)

SpecCalls == InitCalls /\ [][NextCalls]_vars

\* ------------------------------------------------ handle_extract_metadata
TarMembers == {"test_vid.dat", "metadata.json", "depth_ts.txt", "timestamps.csv"}
TimestampFiles == {"depth_ts.txt", "timestamps.csv"}
TrimSet == (0 - MaxTrim)..MaxTrim

InitMeta ==
    /\ IdleExtract
    /\ IdleH5
    /\ IdleSessions
    /\ IdleBatch
    /\ IdleCalls
    /\ IdleManifest
    /\ m_pc = "open"
    /\ is_tar \in BOOLEAN
    /\ tar_names \in SUBSET TarMembers
    /\ dir_files \in SUBSET TimestampFiles
    /\ is_tar => dir_files = {}
    /\ ~is_tar => tar_names = {}
    /\ frame_trim \in TrimSet \X TrimSet
    /\ nframes_arg \in 0..MaxMetaFrames
    /\ m_nframes = nframes_arg
    /\ first_frame_idx = None
    /\ last_frame_idx = None
    /\ alternate_correct = FALSE
    /\ timestamp_path = None
    /\ m_error = ""
    /\ m_result = None

MetaRaise(e) ==
    /\ m_pc' = "raised"
    /\ m_error' = e

\* if str(input_file).endswith('.tar.gz') ...:
\*     input_file = tar_members[tar_names.index('test_vid.dat')]
MetaOpen ==
    /\ m_pc = "open"
    /\ IF is_tar /\ "test_vid.dat" \notin tar_names
       THEN MetaRaise("ValueError")
       ELSE /\ m_pc' = "first"
            /\ UNCHANGED m_error
    /\ UNCHANGED <<extractVars, h5Vars, sessVars, batchVars, callVars, manifestVars,
                   is_tar, tar_names, dir_files, frame_trim, nframes_arg, m_nframes,
                   first_frame_idx, last_frame_idx, alternate_correct, timestamp_path,
                   m_result>>

\* if frame_trim[0] > 0 and frame_trim[0] < nframes: first_frame_idx = frame_trim[0]
\* else: first_frame_idx = 0
MetaFirst ==
    /\ m_pc = "first"
    /\ first_frame_idx' = IF frame_trim[1] > 0 /\ frame_trim[1] < m_nframes
                          THEN Some(frame_trim[1]) ELSE Some(0)
    /\ m_pc' = "last"
    /\ UNCHANGED <<extractVars, h5Vars, sessVars, batchVars, callVars, manifestVars,
                   is_tar, tar_names, dir_files, frame_trim, nframes_arg, m_nframes,
                   last_frame_idx, alternate_correct, timestamp_path, m_error, m_result>>

\* if nframes - frame_trim[1] > first_frame_idx: last_frame_idx = nframes - frame_trim[1]
\* else: last_frame_idx = nframes
MetaLast ==
    /\ m_pc = "last"
    /\ last_frame_idx' = IF m_nframes - frame_trim[2] > first_frame_idx.val
                         THEN Some(m_nframes - frame_trim[2]) ELSE Some(m_nframes)
    /\ m_pc' = "count"
    /\ UNCHANGED <<extractVars, h5Vars, sessVars, batchVars, callVars, manifestVars,
                   is_tar, tar_names, dir_files, frame_trim, nframes_arg, m_nframes,
                   first_frame_idx, alternate_correct, timestamp_path, m_error, m_result>>

\* nframes = last_frame_idx - first_frame_idx; alternate_correct = False
MetaCount ==
    /\ m_pc = "count"
    /\ m_nframes' = last_frame_idx.val - first_frame_idx.val
    /\ alternate_correct' = FALSE
    /\ m_pc' = "paths"
    /\ UNCHANGED <<extractVars, h5Vars, sessVars, batchVars, callVars, manifestVars,
                   is_tar, tar_names, dir_files, frame_trim, nframes_arg,
                   first_frame_idx, last_frame_idx, timestamp_path, m_error, m_result>>

\* the metadata and timestamp paths, from the tarball or from dirname
MetaPaths ==
    /\ m_pc = "paths"
    /\ IF is_tar
       THEN IF "metadata.json" \notin tar_names
            THEN /\ MetaRaise("ValueError")
                 /\ UNCHANGED <<timestamp_path, alternate_correct>>
            ELSE /\ timestamp_path' =
                       IF "depth_ts.txt" \in tar_names THEN Some("depth_ts.txt")
                       ELSE IF "timestamps.csv" \in tar_names THEN Some("timestamps.csv")
                       ELSE timestamp_path
                 /\ alternate_correct' =
                       ("depth_ts.txt" \notin tar_names /\ "timestamps.csv" \in tar_names)
                 /\ m_pc' = "return"
                 /\ UNCHANGED m_error
       ELSE /\ timestamp_path' =
                  IF "depth_ts.txt" \notin dir_files /\ "timestamps.csv" \in dir_files
                  THEN Some("timestamps.csv") ELSE Some("depth_ts.txt")
            /\ alternate_correct' =
                  ("depth_ts.txt" \notin dir_files /\ "timestamps.csv" \in dir_files)
            /\ m_pc' = "return"
            /\ UNCHANGED m_error
    /\ UNCHANGED <<extractVars, h5Vars, sessVars, batchVars, callVars, manifestVars,
                   is_tar, tar_names, dir_files, frame_trim, nframes_arg, m_nframes,
                   first_frame_idx, last_frame_idx, m_result>>

\* return metadata_path, timestamp_path, alternate_correct, tar, nframes,
\*        first_frame_idx, last_frame_idx
MetaReturn ==
    /\ m_pc = "return"
    /\ IF timestamp_path.isNone
       THEN /\ MetaRaise("UnboundLocalError")
            /\ UNCHANGED m_result
       ELSE /\ m_result' = Some([timestamp_path |-> timestamp_path.val,
                                 alternate_correct |-> alternate_correct,
                                 nframes |-> m_nframes,
                                 first_frame_idx |-> first_frame_idx.val,
                                 last_frame_idx |-> last_frame_idx.val])
            /\ m_pc' = "done"
            /\ UNCHANGED m_error
    /\ UNCHANGED <<extractVars, h5Vars, sessVars, batchVars, callVars, manifestVars,
                   is_tar, tar_names, dir_files, frame_trim, nframes_arg, m_nframes,
                   first_frame_idx, last_frame_idx, alternate_correct, timestamp_path>>

NextMeta ==
    \/ MetaOpen
    \/ MetaFirst
    \/ MetaLast
    \/ MetaCount
    \/ MetaPaths
    \/ MetaReturn

SpecMeta == InitMeta /\ [][NextMeta]_vars

\* ------------------------------------------------ copy_manifest_results
\* An entry of the manifest: its copy_path, the keys of its
\* additional_metadata and whether an mp4 lies next to its source h5.  The
\* entries are numbered in the order of manifest.items(); sources holds the
\* numbers of the entries whose source h5 exists.  A file of output_dir is
\* named <<copy_path, extension>>; an h5 file there records the entry it was
\* copied from (0 for a file that was there before the call) and the keys
\* written under /metadata/misc.
CopyPaths == {"session_000", "session_001"}
MetaKeyOrder == <<"realtime_feedback", "realtime_predictions">>
MetaKeys == Range(MetaKeyOrder)
Entries == [copy_path : CopyPaths, additional_metadata : SUBSET MetaKeys, mp4 : BOOLEAN]
H5File(from, keys) == [copied_from |-> from, datasets |-> keys]
OldFile == H5File(0, {})
\* a file written for entry k: the copied mp4, the yaml
CopiedFile(k) == H5File(k, {})

InitManifest ==
    /\ IdleExtract
    /\ IdleH5
    /\ IdleSessions
    /\ IdleBatch
    /\ IdleCalls
    /\ IdleMeta
    /\ cp_pc = "loop"
    /\ manifest \in UNION {[1..n -> Entries] : n \in 1..MaxEntries}
    /\ sources \in SUBSET (1..Len(manifest))
    /\ \E old \in SUBSET CopyPaths : output_files = [f \in old \X {"h5"} |-> OldFile]
    /\ cp_k = 0
    /\ new_h5_path = None
    /\ cp_error = ""
    /\ meta_writes = <<>>

\* for k2, v2 in v['additional_metadata'].items():
\*     with h5py.File(new_h5_path, "a") as f: f.create_dataset(...)
\* on the file with the datasets ds; creating a dataset that exists raises
RECURSIVE WriteMetadata(_, _, _)
WriteMetadata(keys, wanted, ds) ==
    IF keys = <<>> THEN [datasets |-> ds, written |-> <<>>, err |-> ""]
    ELSE IF keys[1] \notin wanted THEN WriteMetadata(Tail(keys), wanted, ds)
    ELSE IF keys[1] \in ds THEN [datasets |-> ds, written |-> <<>>, err |-> "ValueError"]
    ELSE LET rest == WriteMetadata(Tail(keys), wanted, ds \cup {keys[1]})
         IN [datasets |-> rest.datasets, written |-> <<keys[1]>> \o rest.written,
             err |-> rest.err]

\* if os.path.exists(os.path.join(output_dir, '{}.h5'.format(v['copy_path']))): continue
CopySkip ==
    /\ cp_pc = "loop"
    /\ cp_k < Len(manifest)
    /\ <<manifest[cp_k + 1].copy_path, "h5">> \in DOMAIN output_files
    /\ cp_k' = cp_k + 1
    /\ UNCHANGED <<extractVars, h5Vars, sessVars, batchVars, callVars, metaVars,
                   cp_pc, manifest, sources, output_files, new_h5_path, cp_error,
                   meta_writes>>

\* the rest of the loop body for entry k with value v: the h5 is copied if
\* the source exists, the additional metadata is written to new_h5_path, the
\* mp4 is copied and the yaml is written
CopyBody(k, v, copied, path) ==
    IF v.additional_metadata # {} /\ path.isNone
    THEN /\ cp_error' = "UnboundLocalError"
         /\ cp_pc' = "raised"
         /\ output_files' = copied
         /\ UNCHANGED <<cp_k, meta_writes>>
    ELSE \E w \in {IF v.additional_metadata = {}
                   THEN [datasets |-> {}, written |-> <<>>, err |-> ""]
                   ELSE WriteMetadata(MetaKeyOrder, v.additional_metadata,
                                      copied[<<path.val, "h5">>].datasets)} :
         \E withmeta \in {IF v.additional_metadata = {} THEN copied
                          ELSE [copied EXCEPT ![<<path.val, "h5">>].datasets = w.datasets]} :
            /\ meta_writes' = meta_writes \o
                  [i \in 1..Len(w.written) |->
                      [entry |-> k, path |-> path.val, key |-> w.written[i]]]
            /\ IF w.err # ""
               THEN /\ cp_error' = w.err
                    /\ cp_pc' = "raised"
                    /\ output_files' = withmeta
                    /\ UNCHANGED cp_k
               ELSE /\ output_files' =
                          [f \in {<<v.copy_path, "yaml">>}
                                 \cup (IF v.mp4 THEN {<<v.copy_path, "mp4">>} ELSE {})
                             |-> CopiedFile(k)] @@ withmeta
                    /\ cp_k' = cp_k + 1
                    /\ UNCHANGED <<cp_pc, cp_error>>

\* one entry whose destination h5 does not exist yet
CopyEntry ==
    /\ cp_pc = "loop"
    /\ cp_k < Len(manifest)
    /\ <<manifest[cp_k + 1].copy_path, "h5">> \notin DOMAIN output_files
    /\ LET k == cp_k + 1
           v == manifest[k]
       IN IF k \in sources
          THEN /\ new_h5_path' = Some(v.copy_path)
               /\ CopyBody(k, v, (<<v.copy_path, "h5">> :> H5File(k, {})) @@ output_files,
                           Some(v.copy_path))
          ELSE /\ UNCHANGED new_h5_path
               /\ CopyBody(k, v, output_files, new_h5_path)
    /\ UNCHANGED <<extractVars, h5Vars, sessVars, batchVars, callVars, metaVars,
                   manifest, sources>>

\* the loop has gone through every entry
CopyDone ==
    /\ cp_pc = "loop"
    /\ cp_k = Len(manifest)
    /\ cp_pc' = "done"
    /\ UNCHANGED <<extractVars, h5Vars, sessVars, batchVars, callVars, metaVars,
                   manifest, sources, output_files, cp_k, new_h5_path, cp_error,
                   meta_writes>>

NextManifest ==
    \/ CopySkip
    \/ CopyEntry
    \/ CopyDone

SpecManifest == InitManifest /\ [][NextManifest]_vars

\* ------------------------------------------------------------ properties
Abs(x) == IF x < 0 THEN 0 - x ELSE x

Valid(o) == {i \in 1..Len(o) : ~IsNaN(o[i])}

\* pairs of valid frames with no valid frame between them
ConsecValid(o) ==
    {p \in Valid(o) \X Valid(o) :
        /\ p[1] < p[2]
        /\ \A k \in (p[1] + 1)..(p[2] - 1) : IsNaN(o[k])}

FirstValid(o, i) == i \in Valid(o) /\ \A k \in 1..(i - 1) : IsNaN(o[k])

AfterFlip == pc \in {"unwrap", "scalars", "return", "done"}
AfterUnwrap == pc \in {"scalars", "return", "done"}
Ended == pc \in {"done", "raised"}

Asymmetric(a) == \E i \in 1..Len(a) : MirrorFrame(a[i]) # a[i]

\* C1: every per-frame array of the returned bundle that is present
\* (depth_frames, mask_frames, ll_frames, each scalar sequence, flips) has
\* length T, the number of frames of the chunk.
ShapeInvariant ==
    pc = "done" =>
        /\ Len(results.val.depth_frames) = T
        /\ Len(results.val.mask_frames) = T
        /\ results.val.ll_frames.isNone \/ Len(results.val.ll_frames.val) = T
        /\ Len(results.val.scalars.centroid) = T
        /\ Len(results.val.scalars.angle) = T
        /\ Len(results.val.scalars.height_ave) = T
        /\ results.val.flips.isNone \/ Len(results.val.flips.val) = T

\* C2: with a flip classifier, every frame i with flips[i] true has its raw,
\* filtered, mask and (tracker enabled) likelihood crop at index i equal to
\* the mirror of the pre-flip crop at index i, and its orientation
\* increased by pi.
FlipAppliedTogether ==
    (AfterFlip /\ ~flips.isNone) =>
        \A i \in 1..T : flips.val[i] =>
            /\ cropped_frames[i] = MirrorFrame(pre_flip.frames[i])
            /\ cropped_filtered_frames[i] = MirrorFrame(pre_flip.filtered[i])
            /\ mask[i] = MirrorFrame(pre_flip.mask[i])
            /\ use_em_tracker =>
                  /\ i \in DOMAIN cropped_ll.val
                  /\ cropped_ll.val[i] = MirrorFrame(pre_flip.ll.val[i])
            /\ pc = "unwrap" =>
                  features.orientation[i] =
                      IF IsNaN(pre_flip.orientation[i]) THEN NaN
                      ELSE Num(pre_flip.orientation[i][1] + Pi)

\* C3: without a flip classifier extract_chunk does not raise in or after
\* the flip stage (it raises only on a background, an ROI or a crop size), mirrors no crop, adds pi to no orientation and returns
\* the flip decisions as None, not as an array of false values.
NoClassifierNoFlip ==
    ~flip_classifier =>
        /\ pc = "raised" => clean_arg.isNone \/ crop_size <= 0
        /\ AfterFlip =>
              /\ flips.isNone
              /\ cropped_frames = pre_flip.frames
              /\ cropped_filtered_frames = pre_flip.filtered
              /\ mask = pre_flip.mask
              /\ pre_flip.orientation = raw_features.orientation
        /\ pc = "unwrap" => features.orientation = raw_features.orientation
        /\ AfterUnwrap => pre_unwrap = raw_features.orientation
        /\ pc = "done" =>
              /\ results.val.flips.isNone
              /\ results.val.depth_frames = pre_flip.frames
              /\ results.val.mask_frames = pre_flip.mask

NoClassifierWitness ==
    /\ pc = "done"
    /\ ~flip_classifier
    /\ Valid(raw_features.orientation) # {}
    /\ Asymmetric(results.val.depth_frames)

\* C4: ll_frames of the bundle is None exactly when use_em_tracker is false;
\* with the tracker enabled it is the crop of the likelihood of em_get_ll
\* (mirrored on the frames flagged by the flip decisions), and the tracker
\* functions are not invoked when use_em_tracker is false.
LikelihoodBundle ==
    pc = "done" =>
        /\ results.val.ll_frames.isNone <=> ~use_em_tracker
        /\ ~use_em_tracker => tracker_calls = 0
        /\ use_em_tracker =>
              results.val.ll_frames.val =
                  IF flips.isNone
                  THEN crop_and_rotate_frames(ll.val, raw_features)
                  ELSE FlipSelected(crop_and_rotate_frames(ll.val, raw_features),
                                    flips.val)

\* C5: every crop_and_rotate_frames call of extract_chunk (raw, filtered,
\* mask, likelihood) receives the features exactly as get_frame_features
\* returned them, and the features are unmodified up to the last crop call.
CropsShareFeatures ==
    /\ \A k \in DOMAIN crop_calls : crop_calls[k] = raw_features
    /\ pc \in {"crop_raw", "crop_filtered", "crop_mask", "crop_ll", "flip"} =>
          features = raw_features
    /\ AfterFlip \/ pc = "flip" =>
          Len(crop_calls) = IF use_em_tracker THEN 4 ELSE 3

CropsShareFeaturesWitness ==
    /\ pc = "flip"
    /\ use_em_tracker
    /\ Len(crop_calls) = 4
    /\ \E i \in Valid(raw_features.orientation) : raw_features.orientation[i][1] # 0

\* C6: after the unwrap step, the orientations of two valid frames that are
\* consecutive among the valid frames differ by at most pi in magnitude.
OrientationContinuity ==
    AfterUnwrap =>
        \A p \in ConsecValid(features.orientation) :
            Abs(features.orientation[p[2]][1] - features.orientation[p[1]][1]) <= Pi

OrientationContinuityWitness ==
    /\ pc = "done"
    /\ \E p \in ConsecValid(pre_unwrap) :
          /\ p[2] > p[1] + 1
          /\ Abs(pre_unwrap[p[2]][1] - pre_unwrap[p[1]][1]) > Pi

\* C7: a frame whose orientation is missing after feature extraction still
\* has a missing orientation after flip correction and unwrapping and in the
\* returned scalars; extract_chunk does not raise once the features exist
\* (but for a non-positive crop size);
\* and the unwrapped orientations of the valid frames are those obtained by
\* unwrapping the sequence with the missing frames removed.
MissingStaysMissing ==
    /\ \A i \in 1..Len(raw_features.orientation) :
          IsNaN(raw_features.orientation[i]) =>
              /\ IsNaN(features.orientation[i])
              /\ pc = "done" => IsNaN(results.val.scalars.angle[i])
    /\ pc = "raised" => raw_features = NoFeatures \/ crop_size <= 0
    /\ AfterUnwrap =>
          Gather(features.orientation, NotNaN(pre_unwrap))
              = UnwrapOrientation(Gather(pre_unwrap, NotNaN(pre_unwrap)))

MissingStaysMissingWitness ==
    /\ pc = "done"
    /\ ~flips.isNone
    /\ \E i \in 1..T : IsNaN(raw_features.orientation[i]) /\ flips.val[i]
    /\ \E p \in ConsecValid(pre_unwrap) :
          /\ p[2] > p[1] + 1
          /\ features.orientation[p[2]] # pre_unwrap[p[2]]

\* C8 as stated: for two consecutive valid frames with raw orientations a
\* and a + pi of which the classifier flags only the second, both frames are
\* reported with orientation a; and every valid frame's reported orientation
\* differs from its raw orientation by an integer multiple of pi.
FlipPairReportsA ==
    (pc = "done" /\ ~flips.isNone) =>
        /\ \A p \in ConsecValid(raw_features.orientation) :
              (/\ raw_features.orientation[p[2]][1] = raw_features.orientation[p[1]][1] + Pi
               /\ ~flips.val[p[1]]
               /\ flips.val[p[2]])
              => /\ results.val.scalars.angle[p[1]] = raw_features.orientation[p[1]]
                 /\ results.val.scalars.angle[p[2]] = raw_features.orientation[p[1]]
        /\ \A k \in Valid(raw_features.orientation) :
              (results.val.scalars.angle[k][1] - raw_features.orientation[k][1]) % Pi = 0

\* C8 amended: for two consecutive valid frames with raw orientations a and
\* a + pi of which the classifier flags only the second, both frames are
\* reported with the same orientation, which is a when the first of them is
\* the first valid frame of the chunk; and every valid frame's reported
\* orientation differs from its raw orientation by an integer multiple of pi.
FlipPairAgrees ==
    (pc = "done" /\ ~flips.isNone) =>
        /\ \A p \in ConsecValid(raw_features.orientation) :
              (/\ raw_features.orientation[p[2]][1] = raw_features.orientation[p[1]][1] + Pi
               /\ ~flips.val[p[1]]
               /\ flips.val[p[2]])
              => /\ results.val.scalars.angle[p[1]] = results.val.scalars.angle[p[2]]
                 /\ FirstValid(raw_features.orientation, p[1]) =>
                       results.val.scalars.angle[p[1]] = raw_features.orientation[p[1]]
        /\ \A k \in Valid(raw_features.orientation) :
              (results.val.scalars.angle[k][1] - raw_features.orientation[k][1]) % Pi = 0

FlipPairAgreesWitness ==
    /\ pc = "done"
    /\ ~flips.isNone
    /\ \E p \in ConsecValid(raw_features.orientation) :
          /\ raw_features.orientation[p[2]][1] = raw_features.orientation[p[1]][1] + Pi
          /\ ~flips.val[p[1]]
          /\ flips.val[p[2]]
          /\ ~FirstValid(raw_features.orientation, p[1])
          /\ results.val.scalars.angle[p[1]] # raw_features.orientation[p[1]]

\* C9: the mirroring applied to the frames selected by a flip decision is
\* its own inverse: applying the same decision again to the cropped raw,
\* filtered and mask arrays gives back the pre-flip arrays, and a frame whose
\* decision is false is unchanged by either application.
MirrorInvolution ==
    (AfterFlip /\ ~flips.isNone) =>
        /\ FlipSelected(cropped_frames, flips.val) = pre_flip.frames
        /\ FlipSelected(cropped_filtered_frames, flips.val) = pre_flip.filtered
        /\ FlipSelected(mask, flips.val) = pre_flip.mask
        /\ \A i \in 1..T : ~flips.val[i] =>
              /\ cropped_frames[i] = pre_flip.frames[i]
              /\ cropped_filtered_frames[i] = pre_flip.filtered[i]
              /\ mask[i] = pre_flip.mask[i]
              /\ FlipSelected(cropped_frames, flips.val)[i] = cropped_frames[i]

MirrorInvolutionWitness ==
    /\ pc = "done"
    /\ ~flips.isNone
    /\ \E i, j \in 1..T :
          /\ flips.val[i]
          /\ ~flips.val[j]
          /\ cropped_frames[i] # pre_flip.frames[i]
          /\ MirrorFrame(cropped_frames[j]) # cropped_frames[j]

\* apply_roi with the roi it is meant to receive: the chunk masked per pixel
MaskWithRoi(ch, r) ==
    [t \in 1..Len(ch) |->
        [y \in 1..Height(ch[t]) |->
            [x \in 1..Width(ch[t]) |-> IF BPix(r, y, x) # 0 THEN ch[t][y][x] ELSE 0]]]

SameResolution(x) ==
    \A t \in 1..T : Height(x.val) = Height(chunk_arg[t]) /\ Width(x.val) = Width(chunk_arg[t])

\* C10: with a background (of the chunk's resolution) supplied the chunk
\* handed to clean_frames is the per-pixel background minus the chunk, with
\* an ROI supplied it is masked with that ROI, and with neither supplied it
\* is the chunk unchanged.
BgroundRoiBeforeDenoise ==
    (/\ Ended
     /\ bground.isNone \/ SameResolution(bground)
     /\ roi.isNone \/ SameResolution(roi))
    => LET sub == IF bground.isNone THEN chunk_arg
                  ELSE SubtractBground(bground.val, chunk_arg)
           masked == IF roi.isNone THEN sub ELSE MaskWithRoi(sub, roi.val)
       IN /\ ~clean_arg.isNone
          /\ clean_arg.val = masked

\* C11: with a background or an ROI whose resolution differs from that of
\* the chunk's frames, extract_chunk ends in an error, returns no bundle and
\* never goes on to process the chunk.
ShapeMismatchFatal ==
    (\/ ~bground.isNone /\ ~SameResolution(bground)
     \/ ~roi.isNone /\ ~SameResolution(roi))
    => /\ clean_arg.isNone
       /\ results.isNone
       /\ pc # "done"

StageRank(st) ==
    CASE st = "denoise" -> 1
      [] st = "track" -> 2
      [] st = "features" -> 3
      [] st = "crop_raw" -> 4
      [] st = "crop_filtered" -> 5
      [] st = "crop_mask" -> 6
      [] st = "crop_ll" -> 7
      [] st = "flip" -> 8
      [] st = "unwrap" -> 9
      [] st = "scalars" -> 10

\* C12: with a non-positive crop size extract_chunk fails before any
\* processing stage (denoising, tracking, feature extraction, cropping) has
\* run on the chunk.
CropSizeFailsFast ==
    crop_size <= 0 =>
        /\ stages = <<>>
        /\ clean_arg.isNone
        /\ tracker_calls = 0
        /\ raw_features = NoFeatures
        /\ pc # "done"

\* the stages a complete run goes through, given the options of the call
ExpectedStages ==
    <<"denoise">>
    \o (IF use_em_tracker THEN <<"track">> ELSE <<>>)
    \o <<"features", "crop_raw", "crop_filtered", "crop_mask">>
    \o (IF use_em_tracker THEN <<"crop_ll">> ELSE <<>>)
    \o (IF flip_classifier THEN <<"flip">> ELSE <<>>)
    \o <<"unwrap", "scalars">>

\* C13: the stages of extract_chunk run at most once each and in the order
\* denoising, tracking (only if enabled), feature extraction, cropping, flip
\* correction (only with a classifier), unwrapping, scalars; the tracker
\* parameters are estimated from the filtered frames and the likelihood is
\* scored on the unfiltered chunk; the scalars are computed from the
\* flip-corrected filtered crops and the unwrapped orientation.
StageOrder ==
    /\ \A i \in 1..(Len(stages) - 1) : StageRank(stages[i]) < StageRank(stages[i + 1])
    /\ Len(stages) <= Len(ExpectedStages)
    /\ stages = SubSeq(ExpectedStages, 1, Len(stages))
    /\ pc = "done" => stages = ExpectedStages
    /\ ~track_args.isNone =>
          /\ use_em_tracker
          /\ track_args.val.em_tracking = filtered_frames
          /\ track_args.val.em_get_ll = clean_arg.val
    /\ ~scalars_args.isNone =>
          /\ scalars_args.val.frames =
                IF flips.isNone THEN pre_flip.filtered
                ELSE FlipSelected(pre_flip.filtered, flips.val)
          /\ scalars_args.val.orientation = UnwrapOrientation(pre_unwrap)
          /\ pre_unwrap = IF flips.isNone THEN pre_flip.orientation
                          ELSE AddPi(pre_flip.orientation, flips.val)

StageOrderWitness ==
    /\ pc = "done"
    /\ use_em_tracker
    /\ flip_classifier
    /\ Len(stages) = 10
    /\ clean_arg.val # filtered_frames
    /\ \E i \in 1..T : flips.val[i] /\ pre_unwrap[i] # pre_flip.orientation[i]

\* C16 as stated: for a chunk extracted with no flip classifier the flip
\* decisions returned by extract_chunk are all false.
NoClassifierFlipsAllFalse ==
    (pc = "done" /\ ~flip_classifier) =>
        /\ ~results.val.flips.isNone
        /\ Len(results.val.flips.val) = T
        /\ \A i \in 1..Len(results.val.flips.val) : results.val.flips.val[i] = FALSE

\* C16 amended: for a chunk extracted with no flip classifier the flip
\* decisions returned by extract_chunk are absent (None), the flip stage has
\* not run, the returned crops are the crops as cut and the orientation
\* handed to the unwrapping is the one the feature extraction measured.
NoClassifierFlipsAbsent ==
    (pc = "done" /\ ~flip_classifier) =>
        /\ results.val.flips.isNone
        /\ "flip" \notin Range(stages)
        /\ results.val.depth_frames = crop_and_rotate_frames(chunk, raw_features)
        /\ results.val.mask_frames = pre_flip.mask
        /\ pre_unwrap = raw_features.orientation

NoClassifierFlipsAbsentWitness ==
    /\ pc = "done"
    /\ ~flip_classifier
    /\ T = MaxT
    /\ \A i \in 1..T : chunk_arg[i] = BlobFrame

\* the datasets with one entry per frame
H5PerFrame == {<<"frames">>, <<"frames_mask">>, <<"metadata", "extraction", "flips">>}
                  \cup {<<"scalars", n>> : n \in ScalarNames}

\* C15: in the file create_extract_h5 has written, 'frames' and
\* 'frames_mask' have the shape (nframes, crop_size[0], crop_size[1]); every
\* scalar name has a dataset of length nframes; the flip dataset exists
\* exactly when a flip classifier is configured and has length nframes;
\* 'frames_mask' is float32 with the tracking model and boolean without.
H5Layout ==
    /\ \A n \in DOMAIN h5_file \cap H5PerFrame : h5_file[n].shape[1] = nframes
    /\ h5_pc = "done" =>
        LET cs == config_data.crop_size
            fl == <<"metadata", "extraction", "flips">> IN
        /\ <<"frames">> \in DOMAIN h5_file
        /\ h5_file[<<"frames">>].shape = <<nframes, cs[1], cs[2]>>
        /\ <<"frames_mask">> \in DOMAIN h5_file
        /\ h5_file[<<"frames_mask">>].shape = <<nframes, cs[1], cs[2]>>
        /\ h5_file[<<"frames_mask">>].dtype =
              IF config_data.use_tracking_model THEN "float32" ELSE "bool"
        /\ \A n \in ScalarNames :
              <<"scalars", n>> \in DOMAIN h5_file <=> n \in Range(scalar_names)
        /\ \A n \in Range(scalar_names) : h5_file[<<"scalars", n>>].shape = <<nframes>>
        /\ fl \in DOMAIN h5_file <=> ~config_data.flip_classifier.isNone
        /\ fl \in DOMAIN h5_file => h5_file[fl].shape = <<nframes>>

H5LayoutWitness ==
    /\ h5_pc = "done"
    /\ nframes = MaxT
    /\ config_data.crop_size[1] # config_data.crop_size[2]
    /\ ~config_data.use_tracking_model
    /\ ~config_data.flip_classifier.isNone
    /\ Len(scalar_names) = 2
    /\ ~timestamps.isNone /\ timestamps.val # nframes

\* ---- get_selected_sessions
\* the call has returned a selection made at the prompt
Prompted == s_pc = "returned" /\ n_prompts > 0 /\ ~Contains(sessions, "q")

\* the numbers the text inp selects and the numbers it excludes, read alone
Selects(inp) == Range(ParseAll(Split(inp, ","), Lists(<<>>, <<>>, "")).sel)
Excludes(inp) == Range(ParseAll(Split(inp, ","), Lists(<<>>, <<>>, "")).excl)

\* the sessions of lst numbered in iters, in that order, the numbers that are
\* excluded or outside 1..len(lst) selecting nothing
RECURSIVE InRangeOnly(_, _, _)
InRangeOnly(iters, excl, lst) ==
    IF iters = <<>> THEN <<>>
    ELSE (IF iters[1] \in 1..Len(lst) /\ iters[1] \notin excl THEN <<lst[iters[1]]>> ELSE <<>>)
         \o InRangeOnly(Tail(iters), excl, lst)

\* C18: a session whose displayed number lies in an item prefixed with "e"
\* of the entered text, at whatever position among the comma-separated
\* items, is not in the returned list; and an unprefixed range "a-b" entered
\* alone returns the sessions numbered a through b, in increasing order.
ExcludedNeverReturned ==
    Prompted =>
        /\ \A i \in 1..Len(to_extract) :
              i \in Excludes(sessions) => to_extract[i] \notin Range(s_result.val)
        /\ \A a, b \in IdxSet :
              (a < b /\ sessions = <<DigitChar(a), "-", DigitChar(b)>>)
              => s_result.val = InRangeOnly(RangeList(a, b), {}, to_extract)

\* C19: no index entered makes get_selected_sessions raise IndexError, and
\* the list returned after prompting holds exactly to_extract[i-1] for the
\* selected, not excluded indices i within 1..len(to_extract), an index
\* outside that interval selecting no session.
IndicesInRange ==
    /\ s_error # "IndexError"
    /\ Prompted =>
          s_result.val =
              InRangeOnly(IF selected_sess_idx = <<>> /\ variant = "gui"
                             /\ ~Contains(sessions, ",")
                          THEN RangeList(1, Len(to_extract)) ELSE selected_sess_idx,
                          Range(excluded_sess_idx), to_extract)

\* C20: the prompt loop returns only with at least one session or, on the
\* quit letter, with the empty list; and the selection returned is the one
\* the last entered text gives when read alone, whatever was entered before.
LastInputDecides ==
    /\ (s_pc = "returned" /\ n_prompts > 0) =>
          IF Contains(sessions, "q") THEN s_result.val = <<>> ELSE Len(s_result.val) > 0
    /\ Prompted => s_result.val = Pass(variant, to_extract, <<>>, <<>>, sessions).ret

AloneResult(a) ==
    LET filt == clean_frames(a.chunk)
        llv == IF a.use_em_tracker THEN Some(em_get_ll(a.chunk, em_tracking(filt))) ELSE None
    IN Bundle(a.chunk, filt, llv)

TrimmedRange ==
    (nframes_arg >= 1 /\ ~m_result.isNone) =>
        /\ 0 <= m_result.val.first_frame_idx
        /\ m_result.val.first_frame_idx < m_result.val.last_frame_idx
        /\ m_result.val.last_frame_idx <= nframes_arg
        /\ m_result.val.nframes = m_result.val.last_frame_idx - m_result.val.first_frame_idx

\* ---- copy_manifest_results
\* C22: every additional-metadata dataset copy_manifest_results writes for an
\* entry goes into the h5 file copied for that same entry, never into the
\* file copied for an earlier entry; and an h5 file that was in the output
\* directory before the call (its entry is skipped) is left as it was.
MetadataToOwnFile ==
    /\ \A i \in DOMAIN meta_writes :
          /\ meta_writes[i].path = manifest[meta_writes[i].entry].copy_path
          /\ output_files[<<meta_writes[i].path, "h5">>].copied_from = meta_writes[i].entry
    /\ \A f \in DOMAIN output_files :
          (f[2] = "h5" /\ output_files[f].copied_from = 0) => output_files[f] = OldFile

====
